---- MODULE Spec2Model ----
(***************************************************************************)
(* BrandAI: the in-memory Run Store (backend/app/core/run_manager.py), the *)
(* background execution path and the status/result readers                 *)
(* (backend/app/api/routes.py), and the Decision Policy and Orchestration  *)
(* Engine of app/core/orchestrator.py.                                     *)
(***************************************************************************)
EXTENDS Integers, Sequences, FiniteSets, TLC

----------------------------------------------------------------------------
(* Bounds of the model *)

\* number of run identifiers uuid4 can hand out in one behaviour
MaxRuns == 2
\* number of Run Store calls issued by callers in one behaviour
MaxOps == 3
\* cap on retry_count reached by direct increment_retry calls
MaxRetryCount == 2
\* largest retry_count / max_retries fed to the Decision Policy
MaxRetryInput == 4
\* number of concurrent callers of one Run Store method
MaxThreads == 2
\* number of runs submitted through POST /generate in one behaviour
MaxTasks == 1
\* number of increment_retry calls concurrent callers make on one run
MaxIncrements == 4

----------------------------------------------------------------------------
(* Values *)

\* Python None for the string-valued optional fields
None == "None"
\* Python None / a supplied value for the other optional arguments
Nothing == <<>>
Some(v) == <<v>>
\* datetime.now(timezone.utc): an instant, abstracted to "a timestamp is set"
Now == "ts"

RunIds == 1..MaxRuns
\* the run id of a call that is about no run
NoRunId == 0
NoRun == [absent |-> TRUE]
NoStage == [absent |-> TRUE]

RunStatus == {"pending", "extracting_brand_kit", "generating", "critiquing",
              "refining", "completed", "failed"}
PENDING == "pending"
COMPLETED == "completed"
FAILED == "failed"
Terminal == {COMPLETED, FAILED}

StageNames == {"brand_kit", "generation", "critique", "refinement"}
\* the stage names and error texts arbitrary callers pass
CallerStages == {"generation", "critique"}
Errors == {"gen failed", "boom"}
MetaKeys == {"k"}
MetaVals == {"v1", "v2"}
\* the dict values a caller may pass as metadata
Dicts == {<<>>} \cup [MetaKeys -> MetaVals]
MetaArgs == {Nothing} \cup {Some(d) : d \in Dicts}

Prompts == {"a nike shoe ad", "a coffee ad"}
MediaTypes == {"image", "video"}
Urls == {None, "https://brand.example"}

\* progress values callers supply: below, inside and above [0, 100]
ProgressArgs == {Nothing} \cup {Some(p) : p \in {-5, 40, 130}}
StageArgs == {None} \cup CallerStages
ErrorArgs == {None} \cup Errors
DataArgs == {None, "data"}

Max(a, b) == IF a >= b THEN a ELSE b
Min(a, b) == IF a <= b THEN a ELSE b

----------------------------------------------------------------------------
(* State *)

VARIABLES
    runs,      \* keys of RunManager._runs
    heap,      \* the RunModel object each key refers to
    issued,    \* run ids _generate_run_id has returned so far
    last,      \* the last Run Store call and what it returned
    nops,      \* number of Run Store calls issued so far
    lock,      \* RunManager._lock: Nothing, or the thread holding it
    thr,       \* the mutator threads: position inside update_status, arguments
    rdr,       \* the reader (get_status): position, reference held, fields read
    task,      \* per run: the background task running execute_workflow
    dec        \* the Decision Policy's input state and its last result

storeVars == <<runs, heap, issued>>
callVars == <<nops, last>>
concVars == <<lock, thr, rdr>>
vars == <<nops, runs, heap, issued, last, lock, thr, rdr, task, dec>>

\* RunModel(...) as constructed by create_run; the fields create_run does not
\* pass take the defaults of the model class
RunModel(run_id, prompt, media_type, brand_website_url, status, progress) ==
    [run_id |-> run_id,
     prompt |-> prompt,
     media_type |-> media_type,
     brand_website_url |-> brand_website_url,
     status |-> status,
     progress |-> progress,
     current_stage |-> None,
     stages |-> [n \in StageNames |-> NoStage],
     brand_kit_data |-> None,
     generated_ads |-> None,
     critique_results |-> None,
     final_ad_path |-> None,
     error_message |-> None,
     retry_count |-> 0,
     created_at |-> Now,
     updated_at |-> Now,
     completed_at |-> None]

\* RunStage(...) as constructed by start_stage
RunStage(stage_name, status, started_at, metadata) ==
    [stage_name |-> stage_name,
     status |-> status,
     started_at |-> started_at,
     completed_at |-> None,
     metadata |-> metadata,
     error |-> None]

\* dict.update
DictUpdate(d, e) ==
    [k \in (DOMAIN d) \cup (DOMAIN e) |-> IF k \in DOMAIN e THEN e[k] ELSE d[k]]

\* self._runs.get(run_id)
Lookup(run_id) == IF run_id \in runs THEN heap[run_id] ELSE NoRun

----------------------------------------------------------------------------
(* Run Store: what each operation does to the run it finds *)

\* create_run storing the run under a status other than PENDING
NewRunGenerating(run_id, prompt, media_type, brand_website_url) ==
    RunModel(run_id, prompt, media_type, brand_website_url, "generating", 0)

\* create_run: the RunModel it builds
NewRun(run_id, prompt, media_type, brand_website_url) ==
    RunModel(run_id, prompt, media_type, brand_website_url, PENDING, 0)

\* update_status storing the supplied progress as it is
SetProgressUnclamped(run, progress) ==
    IF progress # Nothing
    THEN [run EXCEPT !.progress = progress[1]]
    ELSE run

\* update_status: progress is written only when supplied, clamped to [0, 100]
SetProgress(run, progress) ==
    IF progress # Nothing
    THEN [run EXCEPT !.progress = Max(0, Min(100, progress[1]))]
    ELSE run

\* update_status writing current_stage without the `is not None` test
SetCurrentStageAlways(run, current_stage) ==
    [run EXCEPT !.current_stage = current_stage]

\* update_status: current_stage is written only when supplied
SetCurrentStage(run, current_stage) ==
    IF current_stage # None
    THEN [run EXCEPT !.current_stage = current_stage]
    ELSE run

\* update_status writing error_message without the `is not None` test
SetErrorMessageAlways(run, error_message) ==
    [run EXCEPT !.error_message = error_message]

\* update_status: error_message is written only when supplied
SetErrorMessage(run, error_message) ==
    IF error_message # None
    THEN [run EXCEPT !.error_message = error_message]
    ELSE run

\* update_status: status and updated_at are always written
SetStatus(run, status) ==
    [run EXCEPT !.status = status, !.updated_at = Now]

UpdateStatus(run, status, progress, current_stage, error_message) ==
    SetErrorMessage(
        SetCurrentStage(
            SetProgress(SetStatus(run, status), progress),
            current_stage),
        error_message)

\* metadata or {}
OrEmpty(metadata) == IF metadata = Nothing THEN <<>> ELSE metadata[1]

\* if metadata: (None and the empty dict are both falsy)
Truthy(metadata) == metadata # Nothing /\ metadata[1] # <<>>

\* start_stage updating a record that is already there instead of replacing it
StartStageKeepsRecord(run, stage_name, metadata) ==
    [run EXCEPT
        !.stages[stage_name] =
            IF @ # NoStage
            THEN [@ EXCEPT !.status = PENDING, !.started_at = Now,
                           !.metadata = DictUpdate(@, OrEmpty(metadata))]
            ELSE RunStage(stage_name, PENDING, Now, OrEmpty(metadata)),
        !.current_stage = stage_name,
        !.updated_at = Now]

StartStage(run, stage_name, metadata) ==
    [run EXCEPT
        !.stages[stage_name] = RunStage(stage_name, PENDING, Now, OrEmpty(metadata)),
        !.current_stage = stage_name,
        !.updated_at = Now]

\* complete_stage assigning the supplied metadata instead of merging it
CompletedStageReplaces(stage, metadata) ==
    [stage EXCEPT
        !.status = COMPLETED,
        !.completed_at = Now,
        !.metadata = IF Truthy(metadata) THEN metadata[1] ELSE @]

\* complete_stage: the stage record after the call
CompletedStage(stage, metadata) ==
    [stage EXCEPT
        !.status = COMPLETED,
        !.completed_at = Now,
        !.metadata = IF Truthy(metadata) THEN DictUpdate(@, metadata[1]) ELSE @]

\* complete_stage leaving the stage record as it is
CompleteStageSkipped(run, stage_name, metadata) ==
    [run EXCEPT !.updated_at = Now]

CompleteStage(run, stage_name, metadata) ==
    [run EXCEPT
        !.stages[stage_name] =
            IF @ # NoStage THEN CompletedStage(@, metadata) ELSE @,
        !.updated_at = Now]

\* fail_stage marking the stage record failed without storing the error
FailedStageNoError(stage, error, metadata) ==
    [stage EXCEPT
        !.status = FAILED,
        !.completed_at = Now,
        !.metadata = IF Truthy(metadata) THEN DictUpdate(@, metadata[1]) ELSE @]

\* fail_stage: the stage record after the call
FailedStage(stage, error, metadata) ==
    [stage EXCEPT
        !.status = FAILED,
        !.completed_at = Now,
        !.error = error,
        !.metadata = IF Truthy(metadata) THEN DictUpdate(@, metadata[1]) ELSE @]

\* fail_stage marking the stage record and leaving the run's status and error
FailStageKeepsRun(run, stage_name, error, metadata) ==
    [run EXCEPT
        !.stages[stage_name] =
            IF @ # NoStage THEN FailedStage(@, error, metadata) ELSE @,
        !.updated_at = Now]

\* fail_stage creating the stage record when the name is not in run.stages
FailStageCreates(run, stage_name, error, metadata) ==
    [run EXCEPT
        !.stages[stage_name] =
            FailedStage(IF @ # NoStage THEN @
                        ELSE RunStage(stage_name, PENDING, Now, <<>>),
                        error, metadata),
        !.status = FAILED,
        !.error_message = error,
        !.updated_at = Now]

FailStage(run, stage_name, error, metadata) ==
    [run EXCEPT
        !.stages[stage_name] =
            IF @ # NoStage THEN FailedStage(@, error, metadata) ELSE @,
        !.status = FAILED,
        !.error_message = error,
        !.updated_at = Now]

\* update_run_data that never stores final_ad_path
UpdateRunDataNoFinal(run, brand_kit_data, generated_ads, critique_results, final_ad_path) ==
    [run EXCEPT
        !.brand_kit_data = IF brand_kit_data # None THEN brand_kit_data ELSE @,
        !.generated_ads = IF generated_ads # None THEN generated_ads ELSE @,
        !.critique_results = IF critique_results # None THEN critique_results ELSE @,
        !.updated_at = Now]

\* update_run_data storing the brand kit in the brand-source field
UpdateRunDataIntoInput(run, brand_kit_data, generated_ads, critique_results, final_ad_path) ==
    [run EXCEPT
        !.brand_website_url = IF brand_kit_data # None THEN brand_kit_data ELSE @,
        !.generated_ads = IF generated_ads # None THEN generated_ads ELSE @,
        !.critique_results = IF critique_results # None THEN critique_results ELSE @,
        !.final_ad_path = IF final_ad_path # None THEN final_ad_path ELSE @,
        !.updated_at = Now]

UpdateRunData(run, brand_kit_data, generated_ads, critique_results, final_ad_path) ==
    [run EXCEPT
        !.brand_kit_data = IF brand_kit_data # None THEN brand_kit_data ELSE @,
        !.generated_ads = IF generated_ads # None THEN generated_ads ELSE @,
        !.critique_results = IF critique_results # None THEN critique_results ELSE @,
        !.final_ad_path = IF final_ad_path # None THEN final_ad_path ELSE @,
        !.updated_at = Now]

\* increment_retry touching updated_at only
IncrementRetryNoCount(run) ==
    [run EXCEPT !.updated_at = Now]

IncrementRetry(run) ==
    [run EXCEPT !.retry_count = @ + 1, !.updated_at = Now]

\* complete_run leaving progress where it was
CompleteRunKeepsProgress(run, success) ==
    [run EXCEPT
        !.status = IF success THEN COMPLETED ELSE FAILED,
        !.completed_at = Now,
        !.updated_at = Now]

CompleteRun(run, success) ==
    [run EXCEPT
        !.status = IF success THEN COMPLETED ELSE FAILED,
        !.progress = 100,
        !.completed_at = Now,
        !.updated_at = Now]

----------------------------------------------------------------------------
(* Run Store: the operations, each one whole call under RunManager._lock *)

\* the reader still holds a reference to the object (it is not collected)
Held(run_id) == rdr.ref = Some(run_id)

\* _generate_run_id: str(uuid.uuid4()), a value not handed out before
GenerateRunId == RunIds \ issued

\* the method body entered without taking the lock
LockIgnored == TRUE

\* `with self._lock` can be entered: no thread holds the lock
LockFree == lock = Nothing

\* a caller issues one more call and enters `with self._lock`
CanCall == nops < MaxOps /\ LockFree

\* the call returns: what was called, with which arguments, and its result
Returned(op, run_id, args, ret) ==
    /\ last' = [op |-> op, run_id |-> run_id, args |-> args, ret |-> ret]
    /\ nops' = nops + 1

\* a mutator writing to one object that every key of the store refers to
MutateShared(op, run_id, args, new) ==
    /\ CanCall
    /\ IF run_id \in runs
       THEN heap' = [r \in RunIds |-> IF r \in runs THEN new ELSE heap[r]]
       ELSE heap' = heap
    /\ Returned(op, run_id, IF run_id \in runs THEN args ELSE <<>>, run_id \in runs)
    /\ UNCHANGED <<runs, issued, concVars, task, dec>>

\* a mutator that returns True whether or not it found the run
MutateAlwaysTrue(op, run_id, args, new) ==
    /\ CanCall
    /\ IF run_id \in runs
       THEN heap' = [heap EXCEPT ![run_id] = new]
       ELSE heap' = heap
    /\ Returned(op, run_id, IF run_id \in runs THEN args ELSE <<>>, TRUE)
    /\ UNCHANGED <<runs, issued, concVars, task, dec>>

\* the shape shared by the mutators: look the run up, return False when it is
\* not there, otherwise change the object in place and return True; the
\* arguments are recorded for the calls that found their run and used them
Mutate(op, run_id, args, new) ==
    /\ CanCall
    /\ IF run_id \in runs
       THEN heap' = [heap EXCEPT ![run_id] = new]
       ELSE heap' = heap
    /\ Returned(op, run_id, IF run_id \in runs THEN args ELSE <<>>, run_id \in runs)
    /\ UNCHANGED <<runs, issued, concVars, task, dec>>

\* create_run building the RunModel without storing it under its id
InsertUnregistered(run_id, prompt, media_type, brand_website_url) ==
    /\ issued' = issued \cup {run_id}
    /\ heap' = [heap EXCEPT
                  ![run_id] = NewRun(run_id, prompt, media_type, brand_website_url)]
    /\ runs' = runs

\* create_run: run_id comes from _generate_run_id, the new RunModel is stored
\* under it
Insert(run_id, prompt, media_type, brand_website_url) ==
    /\ issued' = issued \cup {run_id}
    /\ heap' = [heap EXCEPT
                  ![run_id] = NewRun(run_id, prompt, media_type, brand_website_url)]
    /\ runs' = runs \cup {run_id}

create_run(prompt, media_type, brand_website_url) ==
    /\ CanCall
    /\ \E run_id \in GenerateRunId :
          /\ Insert(run_id, prompt, media_type, brand_website_url)
          /\ Returned("create_run", run_id, <<prompt, media_type, brand_website_url>>,
                      Some(run_id))
    /\ UNCHANGED <<concVars, task, dec>>

get_run(run_id) ==
    /\ CanCall
    /\ Returned("get_run", run_id, <<>>,
                IF run_id \in runs THEN Some(run_id) ELSE Nothing)
    /\ UNCHANGED <<storeVars, concVars, task, dec>>

update_status(run_id, status, progress, current_stage, error_message) ==
    Mutate("update_status", run_id, <<status, progress, current_stage, error_message>>,
           UpdateStatus(heap[run_id], status, progress, current_stage, error_message))

\* recorded with the arguments: whether the name was already in run.stages
start_stage(run_id, stage_name, metadata) ==
    Mutate("start_stage", run_id,
           <<stage_name, metadata, heap[run_id].stages[stage_name] # NoStage>>,
           StartStage(heap[run_id], stage_name, metadata))

complete_stage(run_id, stage_name, metadata) ==
    Mutate("complete_stage", run_id, <<stage_name, metadata>>,
           CompleteStage(heap[run_id], stage_name, metadata))

fail_stage(run_id, stage_name, error, metadata) ==
    Mutate("fail_stage", run_id, <<stage_name, error, metadata>>,
           FailStage(heap[run_id], stage_name, error, metadata))

update_run_data(run_id, brand_kit_data, generated_ads, critique_results, final_ad_path) ==
    Mutate("update_run_data", run_id,
           <<brand_kit_data, generated_ads, critique_results, final_ad_path>>,
           UpdateRunData(heap[run_id], brand_kit_data, generated_ads,
                         critique_results, final_ad_path))

increment_retry(run_id) ==
    /\ run_id \in runs => heap[run_id].retry_count < MaxRetryCount
    /\ Mutate("increment_retry", run_id, <<>>, IncrementRetry(heap[run_id]))

complete_run(run_id, success) ==
    Mutate("complete_run", run_id, <<success>>, CompleteRun(heap[run_id], success))

\* delete_run answering without `del self._runs[run_id]`
delete_run_keeps(run_id) ==
    /\ CanCall
    /\ Returned("delete_run", run_id, <<>>, run_id \in runs)
    /\ UNCHANGED <<storeVars, concVars, task, dec>>

delete_run(run_id) ==
    /\ CanCall
    /\ runs' = runs \ {run_id}
    /\ heap' = IF run_id \in runs /\ ~Held(run_id)
               THEN [heap EXCEPT ![run_id] = NoRun]
               ELSE heap
    /\ Returned("delete_run", run_id, <<>>, run_id \in runs)
    /\ UNCHANGED <<issued, concVars, task, dec>>

\* list_runs: the references of the runs in the store, filtered by status
ListRuns(status) ==
    {run_id \in runs : status = None \/ heap[run_id].status = status}

list_runs(status) ==
    /\ CanCall
    /\ Returned("list_runs", NoRunId, <<status>>, ListRuns(status))
    /\ UNCHANGED <<storeVars, concVars, task, dec>>

----------------------------------------------------------------------------
(* The Run Store under arbitrary callers *)

Threads == 1..MaxThreads
NoCall == [op |-> None, run_id |-> NoRunId, args |-> <<>>, ret |-> None]
IdleThread ==
    [pc |-> "idle", args |-> Nothing, before |-> NoRun, ret |-> None,
     loaded |-> 0, calls |-> 0]
IdleReader == [pc |-> "idle", ref |-> Nothing, got |-> NoRun, seen |-> <<>>]
NoTask ==
    [pc |-> "none", brand_website_url |-> None, retry_count |-> 0, max_retries |-> 0,
     refinement_strategy |-> None, decision |-> None,
     failed_stage |-> None, failure |-> None, fault |-> None]
NoDecision ==
    [refinement_strategy |-> None, retry_count |-> 0, max_retries |-> 0,
     decided |-> FALSE, result |-> None]

Init ==
    /\ runs = {}
    /\ heap = [run_id \in RunIds |-> NoRun]
    /\ issued = {}
    /\ last = NoCall
    /\ nops = 0
    /\ lock = Nothing
    /\ thr = [t \in Threads |-> IdleThread]
    /\ rdr = IdleReader
    /\ task = [run_id \in RunIds |-> NoTask]
    /\ dec = NoDecision

Next ==
    \/ \E p \in Prompts, m \in MediaTypes, u \in Urls : create_run(p, m, u)
    \/ \E id \in RunIds : get_run(id)
    \/ \E id \in RunIds, st \in RunStatus, pr \in ProgressArgs,
          cs \in StageArgs, em \in ErrorArgs : update_status(id, st, pr, cs, em)
    \/ \E id \in RunIds, n \in CallerStages, md \in MetaArgs : start_stage(id, n, md)
    \/ \E id \in RunIds, n \in CallerStages, md \in MetaArgs : complete_stage(id, n, md)
    \/ \E id \in RunIds, n \in CallerStages, e \in Errors, md \in MetaArgs :
          fail_stage(id, n, e, md)
    \/ \E id \in RunIds, b \in DataArgs, g \in DataArgs, c \in DataArgs, f \in DataArgs :
          update_run_data(id, b, g, c, f)
    \/ \E id \in RunIds : increment_retry(id)
    \/ \E id \in RunIds, ok \in BOOLEAN : complete_run(id, ok)
    \/ \E id \in RunIds : delete_run(id)
    \/ \E st \in RunStatus \cup {None} : list_runs(st)

Spec == Init /\ [][Next]_vars

----------------------------------------------------------------------------
(* The stage history of one run under arbitrary callers of start_stage,      *)
(* complete_stage and fail_stage                                             *)

\* the metadata the callers of the stage methods pass: none, empty, and
\* dicts over two keys that overlap and that do not
StageMetaArgs ==
    {Nothing, Some(<<>>), Some("k" :> "v1"), Some("k" :> "v2"), Some("m" :> "v1")}

\* the store after one create_run, before the callers of the stage methods
\* issue their calls
InitStages ==
    /\ heap = [run_id \in RunIds |->
                IF run_id = 1 THEN NewRun(1, "a nike shoe ad", "image", None) ELSE NoRun]
    /\ runs = {1}
    /\ issued = {1}
    /\ last = NoCall
    /\ nops = 0
    /\ lock = Nothing
    /\ thr = [t \in Threads |-> IdleThread]
    /\ rdr = IdleReader
    /\ task = [run_id \in RunIds |-> NoTask]
    /\ dec = NoDecision

NextStages ==
    \/ \E id \in RunIds, n \in CallerStages, md \in StageMetaArgs :
          start_stage(id, n, md)
    \/ \E id \in RunIds, n \in CallerStages, md \in StageMetaArgs :
          complete_stage(id, n, md)
    \/ \E id \in RunIds, n \in CallerStages, e \in Errors, md \in StageMetaArgs :
          fail_stage(id, n, e, md)

SpecStages == InitStages /\ [][NextStages]_vars

----------------------------------------------------------------------------
(* Decision Policy (orchestrator.should_continue) *)

Strategies == {"approve", "reject", "regenerate", "enhance"}
END == "end"

\* the ceiling test written with > instead of >=
should_continue_off_by_one(state) ==
    IF state.retry_count > state.max_retries THEN END
    ELSE IF state.refinement_strategy = None THEN END
    ELSE state.refinement_strategy

\* the policy without the test for a missing strategy
should_continue_no_null_test(state) ==
    IF state.retry_count >= state.max_retries THEN END
    ELSE state.refinement_strategy

\* the policy without the retry ceiling
should_continue_no_ceiling(state) ==
    IF state.refinement_strategy = None THEN END
    ELSE state.refinement_strategy

\* should_continue(state): the rule table, evaluated in order
should_continue(state) ==
    IF state.retry_count >= state.max_retries THEN END
    ELSE IF state.refinement_strategy = None THEN END
    ELSE state.refinement_strategy

DecisionInputs ==
    [refinement_strategy : Strategies \cup {None},
     retry_count : 0..MaxRetryInput,
     max_retries : 0..MaxRetryInput,
     decided : {FALSE},
     result : {None}]

\* a caller evaluates the policy on the workflow state it holds
Decide ==
    /\ ~dec.decided
    /\ dec' = [dec EXCEPT !.decided = TRUE, !.result = should_continue(dec)]
    /\ UNCHANGED <<storeVars, callVars, concVars, task>>

\* the next critique arrives: a new workflow state to decide on
NextCritique ==
    /\ dec.decided
    /\ dec' \in DecisionInputs
    /\ UNCHANGED <<storeVars, callVars, concVars, task>>

InitDecide ==
    /\ runs = {}
    /\ heap = [run_id \in RunIds |-> NoRun]
    /\ issued = {}
    /\ last = NoCall
    /\ nops = 0
    /\ lock = Nothing
    /\ thr = [t \in Threads |-> IdleThread]
    /\ rdr = IdleReader
    /\ task = [run_id \in RunIds |-> NoTask]
    /\ dec \in DecisionInputs

NextDecide == Decide \/ NextCritique

SpecDecide == InitDecide /\ [][NextDecide]_vars

----------------------------------------------------------------------------
(* Concurrent callers: update_status statement by statement under the lock, *)
(* and get_status reading the fields of the object get_run returned         *)

\* arguments of the update_status call thread t is making
ArgRunId(t) == thr[t].args[1]
ArgStatus(t) == thr[t].args[2]
ArgProgress(t) == thr[t].args[3]
ArgCurrentStage(t) == thr[t].args[4]
ArgErrorMessage(t) == thr[t].args[5]

At(t, pc) == thr[t].pc = pc
Goto(t, pc) == thr' = [thr EXCEPT ![t].pc = pc]

\* the object thread t holds in its local `run`, rewritten in place
WriteRun(t, new) == heap' = [heap EXCEPT ![ArgRunId(t)] = new]

\* update_status is called: `with self._lock:` and `run = self._runs.get(run_id)`;
\* `if not run: return False` leaves the with block at once
us_acquire(t, run_id, status, progress, current_stage, error_message) ==
    /\ At(t, "idle")
    /\ LockFree
    /\ IF run_id \in runs
       THEN /\ lock' = Some(t)
            /\ thr' = [thr EXCEPT ![t] =
                  [pc |-> "status",
                   args |-> <<run_id, status, progress, current_stage, error_message>>,
                   before |-> heap[run_id],
                   ret |-> None, loaded |-> 0, calls |-> 0]]
       ELSE /\ lock' = lock
            /\ thr' = [thr EXCEPT ![t] =
                  [pc |-> "done",
                   args |-> <<run_id, status, progress, current_stage, error_message>>,
                   before |-> NoRun,
                   ret |-> FALSE, loaded |-> 0, calls |-> 0]]
    /\ UNCHANGED <<storeVars, callVars, rdr, task, dec>>

\* run.status = status; run.updated_at = now
us_status(t) ==
    /\ At(t, "status")
    /\ WriteRun(t, SetStatus(heap[ArgRunId(t)], ArgStatus(t)))
    /\ Goto(t, "progress")
    /\ UNCHANGED <<runs, issued, callVars, lock, rdr, task, dec>>

\* if progress is not None: run.progress = max(0.0, min(100.0, progress))
us_progress(t) ==
    /\ At(t, "progress")
    /\ WriteRun(t, SetProgress(heap[ArgRunId(t)], ArgProgress(t)))
    /\ Goto(t, "current_stage")
    /\ UNCHANGED <<runs, issued, callVars, lock, rdr, task, dec>>

\* if current_stage is not None: run.current_stage = current_stage
us_current_stage(t) ==
    /\ At(t, "current_stage")
    /\ WriteRun(t, SetCurrentStage(heap[ArgRunId(t)], ArgCurrentStage(t)))
    /\ Goto(t, "error_message")
    /\ UNCHANGED <<runs, issued, callVars, lock, rdr, task, dec>>

\* if error_message is not None: run.error_message = error_message
us_error_message(t) ==
    /\ At(t, "error_message")
    /\ WriteRun(t, SetErrorMessage(heap[ArgRunId(t)], ArgErrorMessage(t)))
    /\ Goto(t, "return")
    /\ UNCHANGED <<runs, issued, callVars, lock, rdr, task, dec>>

\* return True: the with block is left and the lock released
us_return(t) ==
    /\ At(t, "return")
    /\ lock' = Nothing
    /\ thr' = [thr EXCEPT ![t].pc = "done", ![t].before = NoRun, ![t].ret = TRUE]
    /\ UNCHANGED <<storeVars, callVars, rdr, task, dec>>

\* get_status: run = run_manager.get_run(run_id), the object itself;
\* `if not run: raise RunNotFoundError`
gs_get_run(run_id) ==
    /\ rdr.pc = "idle"
    /\ LockFree
    /\ rdr' = IF run_id \in runs
              THEN [pc |-> "status", ref |-> Some(run_id),
                    got |-> heap[run_id], seen |-> <<>>]
              ELSE [IdleReader EXCEPT !.pc = "not_found"]
    /\ UNCHANGED <<storeVars, callVars, lock, thr, task, dec>>

\* the object the reader's reference denotes now
Deref == heap[rdr.ref[1]]

ReadField(pc, field, value, next) ==
    /\ rdr.pc = pc
    /\ rdr' = [rdr EXCEPT !.pc = next, !.seen = DictUpdate(@, field :> value)]
    /\ UNCHANGED <<storeVars, callVars, lock, thr, task, dec>>

\* StatusResponse(status=run.status, ...
gs_status == ReadField("status", "status", Deref.status, "progress")

\* ... progress=run.progress, ...
gs_progress == ReadField("progress", "progress", Deref.progress, "current_stage")

\* ... current_stage=run.current_stage, ...
gs_current_stage ==
    ReadField("current_stage", "current_stage", Deref.current_stage, "message")

\* ... message=run.error_message if run.status == RunStatus.FAILED else None)
gs_message ==
    ReadField("message", "message",
              IF Deref.status = FAILED THEN Deref.error_message ELSE None,
              "respond")

\* the response is sent (or the 404 raised) and the reference dropped
gs_respond ==
    /\ rdr.pc \in {"respond", "not_found"}
    /\ rdr' = [IdleReader EXCEPT !.pc = "done"]
    /\ heap' = IF rdr.ref # Nothing /\ rdr.ref[1] \notin runs
               THEN [heap EXCEPT ![rdr.ref[1]] = NoRun]
               ELSE heap
    /\ UNCHANGED <<runs, issued, callVars, lock, thr, task, dec>>

\* the store after one create_run
InitConc ==
    /\ heap = [run_id \in RunIds |->
                IF run_id = 1 THEN NewRun(1, "a nike shoe ad", "image", None) ELSE NoRun]
    /\ runs = {1}
    /\ issued = {1}
    /\ last = [op |-> "create_run", run_id |-> 1,
               args |-> <<"a nike shoe ad", "image", None>>, ret |-> Some(1)]
    /\ nops = 1
    /\ lock = Nothing
    /\ thr = [t \in Threads |-> IdleThread]
    /\ rdr = IdleReader
    /\ task = [run_id \in RunIds |-> NoTask]
    /\ dec = NoDecision

\* what the concurrent callers pass
ConcStatus == {"generating", "critiquing"}
ConcProgress == {Nothing, Some(40)}
ConcStage == {None, "generation"}
ConcError == {None, "boom"}

NextConc ==
    \/ \E t \in Threads, id \in RunIds, st \in ConcStatus, pr \in ConcProgress,
          cs \in ConcStage, em \in ConcError : us_acquire(t, id, st, pr, cs, em)
    \/ \E t \in Threads : us_status(t)
    \/ \E t \in Threads : us_progress(t)
    \/ \E t \in Threads : us_current_stage(t)
    \/ \E t \in Threads : us_error_message(t)
    \/ \E t \in Threads : us_return(t)
    \/ \E id \in RunIds : gs_get_run(id)
    \/ gs_status
    \/ gs_progress
    \/ gs_current_stage
    \/ gs_message
    \/ gs_respond

SpecConc == InitConc /\ [][NextConc]_vars

----------------------------------------------------------------------------
(* Concurrent callers of increment_retry, statement by statement: the        *)
(* augmented assignment reads retry_count and writes it back in two steps    *)

\* increment_retry is called: `with self._lock:` and `run = self._runs.get(run_id)`;
\* `if not run: return False` leaves the with block at once
ir_acquire(t, run_id) ==
    /\ thr[t].pc \in {"idle", "done"}
    /\ LockFree
    /\ run_id \in runs => heap[run_id].retry_count < MaxIncrements
    /\ IF run_id \in runs
       THEN /\ lock' = Some(t)
            /\ thr' = [thr EXCEPT ![t].pc = "retry_load", ![t].args = <<run_id>>,
                                  ![t].before = heap[run_id], ![t].ret = None]
       ELSE /\ lock' = lock
            /\ thr' = [thr EXCEPT ![t].pc = "done", ![t].args = <<run_id>>,
                                  ![t].before = NoRun, ![t].ret = FALSE]
    /\ UNCHANGED <<storeVars, callVars, rdr, task, dec>>

\* run.retry_count += 1, first half: the attribute is read
ir_load(t) ==
    /\ At(t, "retry_load")
    /\ thr' = [thr EXCEPT ![t].pc = "retry_store",
                          ![t].loaded = heap[ArgRunId(t)].retry_count]
    /\ UNCHANGED <<storeVars, callVars, lock, rdr, task, dec>>

\* run.retry_count += 1, second half: the sum is written back
ir_store(t) ==
    /\ At(t, "retry_store")
    /\ WriteRun(t, [heap[ArgRunId(t)] EXCEPT !.retry_count = thr[t].loaded + 1])
    /\ Goto(t, "retry_updated_at")
    /\ UNCHANGED <<runs, issued, callVars, lock, rdr, task, dec>>

\* run.updated_at = now
ir_updated_at(t) ==
    /\ At(t, "retry_updated_at")
    /\ WriteRun(t, [heap[ArgRunId(t)] EXCEPT !.updated_at = Now])
    /\ Goto(t, "retry_return")
    /\ UNCHANGED <<runs, issued, callVars, lock, rdr, task, dec>>

\* return True: the with block is left and the lock released
ir_return(t) ==
    /\ At(t, "retry_return")
    /\ lock' = Nothing
    /\ thr' = [thr EXCEPT ![t].pc = "done", ![t].before = NoRun, ![t].ret = TRUE,
                          ![t].loaded = 0, ![t].calls = @ + 1]
    /\ UNCHANGED <<storeVars, callVars, rdr, task, dec>>

NextRetry ==
    \/ \E t \in Threads, id \in RunIds : ir_acquire(t, id)
    \/ \E t \in Threads : ir_load(t)
    \/ \E t \in Threads : ir_store(t)
    \/ \E t \in Threads : ir_updated_at(t)
    \/ \E t \in Threads : ir_return(t)

SpecRetry == InitConc /\ [][NextRetry]_vars

----------------------------------------------------------------------------
(* The background path: generate_ad, execute_workflow and the engine it runs *)

\* max_retries as execute_workflow passes it to orchestrator.execute
ApiMaxRetries == 3

\* prompt: str = Form(..., min_length=10, max_length=1000)
MinLength == 10
MaxLength == 1000

\* a posted prompt, character by character: n letters between l and r blanks
Blanks(n) == [i \in 1..n |-> " "]
Letters(n) == [i \in 1..n |-> "x"]
Padded(l, n, r) == Blanks(l) \o Letters(n) \o Blanks(r)

\* prompts posted to /generate: 10 letters, 10 letters inside blanks, 9
\* letters, 8 letters inside blanks (12 characters), 1001 letters
ApiPrompts ==
    {Padded(0, 10, 0), Padded(1, 10, 1), Padded(0, 9, 0), Padded(2, 8, 2),
     Padded(0, MaxLength + 1, 0)}

RECURSIVE LStrip(_)
LStrip(s) == IF s # <<>> /\ Head(s) = " " THEN LStrip(Tail(s)) ELSE s

RECURSIVE RStrip(_)
RStrip(s) ==
    IF s # <<>> /\ s[Len(s)] = " " THEN RStrip(SubSeq(s, 1, Len(s) - 1)) ELSE s

\* a strip() that removes nothing
StripNothing(s) == s

\* prompt.strip()
Strip(s) == RStrip(LStrip(s))

\* the Form constraints on prompt, checked before the handler body runs
FormValid(prompt) == Len(prompt) >= MinLength /\ Len(prompt) <= MaxLength

ApiMediaTypes == MediaTypes \cup {"audio"}

\* an uploaded file: none, one that is checked and saved, one that fails a
\* check (no filename, extension, empty content) or fails to save
Uploads == {None, "saved", "rejected"}

\* the checks of generate_ad that raise ValidationError or FileUploadError
Accepted(prompt, media_type, logo, product) ==
    /\ Len(Strip(prompt)) >= 10
    /\ media_type \in {"image", "video"}
    /\ logo # "rejected"
    /\ product # "rejected"

Submitted == {run_id \in RunIds : task[run_id].pc # "none"}

\* POST /generate creating the run before the uploads are checked and
\* saved: a failing upload answers 400 and leaves the run in the store
generate_ad_creates_first(prompt, media_type, brand_website_url, logo, product) ==
    /\ CanCall
    /\ Cardinality(Submitted) < MaxTasks
    /\ IF FormValid(prompt) /\ Accepted(prompt, media_type, None, None)
       THEN \E run_id \in GenerateRunId :
              /\ Insert(run_id, prompt, media_type, brand_website_url)
              /\ IF Accepted(prompt, media_type, logo, product)
                 THEN /\ task' = [task EXCEPT ![run_id] =
                            [NoTask EXCEPT !.pc = "queued",
                                           !.brand_website_url = brand_website_url,
                                           !.max_retries = ApiMaxRetries]]
                      /\ Returned("generate_ad", run_id,
                            <<prompt, media_type, brand_website_url, logo, product>>, 200)
                 ELSE /\ task' = task
                      /\ Returned("generate_ad", NoRunId,
                            <<prompt, media_type, brand_website_url, logo, product>>, 400)
       ELSE /\ UNCHANGED <<storeVars, task>>
            /\ Returned("generate_ad", NoRunId,
                        <<prompt, media_type, brand_website_url, logo, product>>,
                        IF FormValid(prompt) THEN 400 ELSE 422)
    /\ UNCHANGED <<concVars, dec>>

\* POST /generate: validate, save the uploads, create the run, add the
\* background task, answer with the run id; a request the Form constraints
\* refuse answers 422, one the handler's checks refuse answers 400
generate_ad(prompt, media_type, brand_website_url, logo, product) ==
    /\ CanCall
    /\ Cardinality(Submitted) < MaxTasks
    /\ IF FormValid(prompt) /\ Accepted(prompt, media_type, logo, product)
       THEN \E run_id \in GenerateRunId :
              /\ Insert(run_id, prompt, media_type, brand_website_url)
              /\ task' = [task EXCEPT ![run_id] =
                    [NoTask EXCEPT !.pc = "queued",
                                   !.brand_website_url = brand_website_url,
                                   !.max_retries = ApiMaxRetries]]
              /\ Returned("generate_ad", run_id,
                            <<prompt, media_type, brand_website_url, logo, product>>, 200)
       ELSE /\ UNCHANGED <<storeVars, task>>
            /\ Returned("generate_ad", NoRunId,
                        <<prompt, media_type, brand_website_url, logo, product>>,
                        IF FormValid(prompt) THEN 400 ELSE 422)
    /\ UNCHANGED <<concVars, dec>>

\* GET /status/{run_id}: the StatusResponse built from the run get_run
\* returns, or the 404 the RunNotFoundError handler answers
StatusResponse(run_id) ==
    IF run_id \notin runs
    THEN [code |-> 404]
    ELSE LET run == heap[run_id]
         IN  [code |-> 200,
              run_id |-> run.run_id,
              status |-> run.status,
              progress |-> run.progress,
              current_stage |-> run.current_stage,
              message |-> IF run.status = FAILED THEN run.error_message ELSE None,
              created_at |-> run.created_at,
              updated_at |-> run.updated_at]

get_status(run_id) ==
    /\ CanCall
    /\ Returned("get_status", run_id, <<>>, StatusResponse(run_id))
    /\ UNCHANGED <<storeVars, concVars, task, dec>>

\* CritiqueReport(**run.critique_results): the report, or None when there are
\* no results or the conversion raises
CritiqueReports(run_id) ==
    IF run_id \notin runs \/ heap[run_id].critique_results = None
    THEN {None}
    ELSE {None, "report"}

\* GET /result/{run_id} without the handler for RunNotFoundError: the
\* exception reaches `except Exception` and is answered 500
FinalResponseInternalError(run_id, critique_report) ==
    IF run_id \notin runs
    THEN [code |-> 500]
    ELSE LET run == heap[run_id]
         IN  IF run.status # COMPLETED
             THEN [code |-> 400]
             ELSE [code |-> 200,
                   run_id |-> run.run_id,
                   status |-> run.status,
                   success |-> TRUE,
                   critique_report |-> critique_report,
                   retry_count |-> run.retry_count,
                   completed_at |-> IF run.completed_at # None
                                    THEN run.completed_at
                                    ELSE run.updated_at]

\* GET /result/{run_id}: 404 for an unknown id, 400 unless the status is
\* COMPLETED, otherwise the FinalResponse
FinalResponse(run_id, critique_report) ==
    IF run_id \notin runs
    THEN [code |-> 404]
    ELSE LET run == heap[run_id]
         IN  IF run.status # COMPLETED
             THEN [code |-> 400]
             ELSE [code |-> 200,
                   run_id |-> run.run_id,
                   status |-> run.status,
                   success |-> TRUE,
                   critique_report |-> critique_report,
                   retry_count |-> run.retry_count,
                   completed_at |-> IF run.completed_at # None
                                    THEN run.completed_at
                                    ELSE run.updated_at]

get_result(run_id) ==
    /\ CanCall
    /\ \E critique_report \in CritiqueReports(run_id) :
          Returned("get_result", run_id, <<>>, FinalResponse(run_id, critique_report))
    /\ UNCHANGED <<storeVars, concVars, task, dec>>

EngineStages == {"brand_kit", "generation", "critique", "refinement"}

StageStatus(stage_name) ==
    CASE stage_name = "brand_kit" -> "extracting_brand_kit"
      [] stage_name = "generation" -> "generating"
      [] stage_name = "critique" -> "critiquing"
      [] stage_name = "refinement" -> "refining"

\* the progress checkpoint of a stage: supplied on the first pass only, so a
\* loop-back does not move progress backwards
Checkpoint(stage_name, retry_count) ==
    IF retry_count > 0 THEN Nothing
    ELSE CASE stage_name = "brand_kit" -> Some(10)
           [] stage_name = "generation" -> Some(40)
           [] stage_name = "critique" -> Some(70)
           [] stage_name = "refinement" -> Nothing

\* state entry: update_status, then start_stage
Enter(run, stage_name, retry_count) ==
    StartStage(
        UpdateStatus(run, StageStatus(stage_name), Checkpoint(stage_name, retry_count),
                     stage_name, None),
        stage_name, Nothing)

\* the engine's store calls on its run: each returns False and changes
\* nothing when the run is not in the store
EngineStore(run_id, new) ==
    /\ LockFree
    /\ heap' = IF run_id \in runs THEN [heap EXCEPT ![run_id] = new] ELSE heap
    /\ UNCHANGED <<runs, issued, callVars, concVars, dec>>

EngineAt(run_id, pc) == task[run_id].pc = pc
EngineGoto(run_id, pc) == task' = [task EXCEPT ![run_id].pc = pc]

\* execute_workflow starts: orchestrator.execute runs in the executor and
\* enters its first state, BrandKit when a website was supplied
ew_start(run_id) ==
    LET first == IF task[run_id].brand_website_url # None
                 THEN "brand_kit" ELSE "generation"
    IN  /\ EngineAt(run_id, "queued")
        /\ EngineStore(run_id, Enter(heap[run_id], first, 0))
        /\ EngineGoto(run_id, first)

\* BrandKit -> Generation on adapter success
eng_brand_kit_done(run_id) ==
    /\ EngineAt(run_id, "brand_kit")
    /\ EngineStore(run_id,
          Enter(CompleteStage(UpdateRunData(heap[run_id], "data", None, None, None),
                              "brand_kit", Nothing),
                "generation", task[run_id].retry_count))
    /\ EngineGoto(run_id, "generation")

\* Generation -> Critique on adapter success
eng_generation_done(run_id) ==
    /\ EngineAt(run_id, "generation")
    /\ EngineStore(run_id,
          Enter(CompleteStage(UpdateRunData(heap[run_id], None, "data", None, None),
                              "generation", Nothing),
                "critique", task[run_id].retry_count))
    /\ EngineGoto(run_id, "critique")

\* Refinement -> Critique on adapter success
eng_refinement_done(run_id) ==
    /\ EngineAt(run_id, "refinement")
    /\ EngineStore(run_id,
          Enter(CompleteStage(UpdateRunData(heap[run_id], None, "data", None, None),
                              "refinement", Nothing),
                "critique", task[run_id].retry_count))
    /\ EngineGoto(run_id, "critique")

\* Critique -> Decision: the critique result is stored, the recommended
\* strategy kept in the workflow state
eng_critique_done(run_id, strategy) ==
    /\ EngineAt(run_id, "critique")
    /\ EngineStore(run_id,
          CompleteStage(UpdateRunData(heap[run_id], None, None, "data", None),
                        "critique", Nothing))
    /\ task' = [task EXCEPT ![run_id].pc = "decision",
                            ![run_id].refinement_strategy = strategy]

\* any adapter failure is run-fatal: fail_stage, and the engine returns
eng_stage_failed(run_id, error) ==
    /\ task[run_id].pc \in EngineStages
    /\ EngineStore(run_id, FailStage(heap[run_id], task[run_id].pc, error, Nothing))
    /\ task' = [task EXCEPT ![run_id].pc = "finished",
                            ![run_id].failed_stage = task[run_id].pc,
                            ![run_id].failure = error]

\* one error text for both ways the Decision Policy ends a run
EndErrorGeneric(state) == "workflow ended"

\* the error of a run the Decision Policy ends
EndError(state) ==
    IF state.retry_count >= state.max_retries
    THEN "max retries exceeded"
    ELSE "no actionable strategy"

\* Decision: the transition should_continue selects
eng_decide(run_id) ==
    LET state == task[run_id]
        decision == should_continue(state)
        run == heap[run_id]
    IN  /\ EngineAt(run_id, "decision")
        /\ CASE decision = "approve" ->
                  /\ EngineStore(run_id,
                        CompleteRun(UpdateRunData(run, None, None, None, "data"), TRUE))
                  /\ task' = [task EXCEPT ![run_id].pc = "finished",
                                          ![run_id].decision = decision]
             [] decision = "reject" ->
                  /\ EngineStore(run_id,
                        UpdateStatus(run, FAILED, Nothing, None,
                                     "rejected by critique, no further attempts"))
                  /\ task' = [task EXCEPT ![run_id].pc = "finished",
                                          ![run_id].decision = decision]
             [] decision = "regenerate" ->
                  /\ EngineStore(run_id,
                        Enter(IncrementRetry(run), "generation", state.retry_count + 1))
                  /\ task' = [task EXCEPT ![run_id].pc = "generation",
                                          ![run_id].decision = decision,
                                          ![run_id].retry_count = @ + 1]
             [] decision = "enhance" ->
                  /\ EngineStore(run_id,
                        Enter(IncrementRetry(run), "refinement", state.retry_count + 1))
                  /\ task' = [task EXCEPT ![run_id].pc = "refinement",
                                          ![run_id].decision = decision,
                                          ![run_id].retry_count = @ + 1]
             [] decision = END ->
                  /\ EngineStore(run_id,
                        UpdateStatus(run, FAILED, Nothing, None, EndError(state)))
                  /\ task' = [task EXCEPT ![run_id].pc = "finished",
                                          ![run_id].decision = decision]

\* an exception leaves the try block of execute_workflow (raised by
\* orchestrator.execute, by the executor or by result.get): the handler logs it
\* and calls run_manager.fail_run, which RunManager does not define, so the
\* handler raises AttributeError and the task ends by raising
ew_fault(run_id, error) ==
    /\ task[run_id].pc \in {"queued"} \cup EngineStages \cup {"decision"}
    /\ task' = [task EXCEPT ![run_id].pc = "raised", ![run_id].fault = error]
    /\ UNCHANGED <<storeVars, callVars, concVars, dec>>

NextEngine ==
    \/ \E p \in ApiPrompts, m \in ApiMediaTypes, u \in Urls,
          logo \in Uploads, product \in Uploads : generate_ad(p, m, u, logo, product)
    \/ \E id \in RunIds : ew_start(id)
    \/ \E id \in RunIds : eng_brand_kit_done(id)
    \/ \E id \in RunIds : eng_generation_done(id)
    \/ \E id \in RunIds : eng_refinement_done(id)
    \/ \E id \in RunIds, s \in Strategies \cup {None} : eng_critique_done(id, s)
    \/ \E id \in RunIds, e \in Errors : eng_stage_failed(id, e)
    \/ \E id \in RunIds : eng_decide(id)
    \/ \E id \in RunIds, e \in Errors : ew_fault(id, e)
    \/ \E id \in RunIds : get_status(id)
    \/ \E id \in RunIds : get_result(id)

SpecEngine == Init /\ [][NextEngine]_vars

\* the steps of the engine on one run whose adapter call returned, with a
\* result or with a failure
EngineStep(run_id) ==
    \/ ew_start(run_id)
    \/ eng_brand_kit_done(run_id)
    \/ eng_generation_done(run_id)
    \/ eng_refinement_done(run_id)
    \/ \E s \in Strategies \cup {None} : eng_critique_done(run_id, s)
    \/ \E e \in Errors : eng_stage_failed(run_id, e)
    \/ eng_decide(run_id)

\* the background task of a submitted run is scheduled and every adapter
\* call it makes returns: the engine keeps taking its next step
SpecEngineLive == SpecEngine /\ \A run_id \in RunIds : WF_vars(EngineStep(run_id))

----------------------------------------------------------------------------
(* The background tasks of two runs: each POST /generate adds its own task,   *)
(* which runs orchestrator.execute for its run in its own executor            *)

\* what the two requests posted: the first with a brand website
PostedArgs(run_id) ==
    <<Padded(0, 10, 0), "image",
      IF run_id = 1 THEN "https://brand.example" ELSE None, None, None>>

\* the state after two accepted POST /generate requests, both tasks queued
InitPipelines ==
    /\ runs = {1, 2}
    /\ issued = {1, 2}
    /\ heap = [run_id \in RunIds |->
                IF run_id \in {1, 2}
                THEN NewRun(run_id, PostedArgs(run_id)[1], PostedArgs(run_id)[2],
                            PostedArgs(run_id)[3])
                ELSE NoRun]
    /\ task = [run_id \in RunIds |->
                IF run_id \in {1, 2}
                THEN [NoTask EXCEPT !.pc = "queued",
                                    !.brand_website_url = PostedArgs(run_id)[3],
                                    !.max_retries = ApiMaxRetries]
                ELSE NoTask]
    /\ last = [op |-> "generate_ad", run_id |-> 2, args |-> PostedArgs(2), ret |-> 200]
    /\ nops = 2
    /\ lock = Nothing
    /\ thr = [t \in Threads |-> IdleThread]
    /\ rdr = IdleReader
    /\ dec = NoDecision

NextPipelines ==
    \/ \E id \in RunIds : ew_start(id)
    \/ \E id \in RunIds : eng_brand_kit_done(id)
    \/ \E id \in RunIds : eng_generation_done(id)
    \/ \E id \in RunIds : eng_refinement_done(id)
    \/ \E id \in RunIds, s \in Strategies \cup {None} : eng_critique_done(id, s)
    \/ \E id \in RunIds, e \in Errors : eng_stage_failed(id, e)
    \/ \E id \in RunIds : eng_decide(id)
    \/ \E id \in RunIds, e \in Errors : ew_fault(id, e)

SpecPipelines == InitPipelines /\ [][NextPipelines]_vars

----------------------------------------------------------------------------
(* Claims *)

\* the run the last call was about
LastRun == Lookup(last.run_id)

\* C1: immediately after create_run the new run is in the store (get returns
\* it) with status pending, progress 0, retry_count 0 and an empty stage
\* history, whatever prompt, media type and brand url were passed.
C1_CreateInitialState ==
    last.op = "create_run" =>
        /\ last.run_id \in runs
        /\ last.ret = Some(last.run_id)
        /\ LastRun # NoRun
        /\ LastRun.run_id = last.run_id
        /\ LastRun.status = PENDING
        /\ LastRun.progress = 0
        /\ LastRun.retry_count = 0
        /\ \A n \in StageNames : LastRun.stages[n] = NoStage

\* a second run was just created, with other inputs than the first, while the
\* first run had already moved on
C1_Witness ==
    /\ last.op = "create_run"
    /\ runs = RunIds
    /\ LastRun.prompt = "a coffee ad"
    /\ LastRun.media_type = "video"
    /\ LastRun.brand_website_url # None
    /\ \E other \in runs \ {last.run_id} :
          /\ heap[other].prompt = "a nike shoe ad"
          /\ heap[other].status = "generating"

\* C3: once retry_count >= max_retries the decision is "end" for every
\* strategy, approve included.
C3_RetryCeilingDominates ==
    (dec.decided /\ dec.retry_count >= dec.max_retries) => dec.result = END

\* approve was recommended exactly at the ceiling and the decision was "end"
C3_Witness ==
    /\ dec.decided
    /\ dec.refinement_strategy = "approve"
    /\ dec.retry_count = dec.max_retries
    /\ dec.max_retries = 3
    /\ dec.result = END

\* C4: below the ceiling a missing strategy gives "end" and each of approve,
\* reject, regenerate, enhance is returned unchanged; deciding changes neither
\* the inputs it read nor any other state.
C4_BelowCeilingInv ==
    (dec.decided /\ dec.retry_count < dec.max_retries) =>
        dec.result = IF dec.refinement_strategy = None
                     THEN END
                     ELSE dec.refinement_strategy

C4_DecideIsPure ==
    (~dec.decided /\ dec'.decided) =>
        /\ dec'.refinement_strategy = dec.refinement_strategy
        /\ dec'.retry_count = dec.retry_count
        /\ dec'.max_retries = dec.max_retries
        /\ UNCHANGED <<storeVars, callVars, concVars, task>>

\* C4 as one formula: the table below the ceiling, and deciding is pure
C4_BelowCeiling == []C4_BelowCeilingInv /\ [][C4_DecideIsPure]_vars

\* a strategy was passed through below the ceiling
C4_Witness ==
    /\ dec.decided
    /\ dec.retry_count = 2
    /\ dec.max_retries = 3
    /\ dec.refinement_strategy = "enhance"
    /\ dec.result = "enhance"

\* C5: in every reachable state the completed timestamp of a run is set if
\* and only if its status is completed or failed.
C5_CompletedAtIffTerminal ==
    \A run_id \in runs :
        (heap[run_id].completed_at # None) <=> (heap[run_id].status \in Terminal)

Ended(run_id) == task[run_id].pc \in {"finished", "raised"}

\* C6: a fault raised while the pipeline of a run executes is caught on the
\* background path: the task never ends by raising, and when it has ended the
\* run is stored in a terminal status, failed with an error message after a
\* fault.
C6_FaultBecomesFailure ==
    \A run_id \in RunIds :
        Ended(run_id) =>
            /\ task[run_id].pc # "raised"
            /\ run_id \in runs => heap[run_id].status \in Terminal
            /\ (run_id \in runs /\ task[run_id].fault # None) =>
                  /\ heap[run_id].status = FAILED
                  /\ heap[run_id].error_message # None

\* C7: no Run Store operation makes the progress of a run smaller than it was.
C7_ProgressStep ==
    \A run_id \in runs \cap runs' :
        heap'[run_id].progress >= heap[run_id].progress

\* C7 as a property of every step
C7_ProgressMonotone == [][C7_ProgressStep]_vars

\* the field of the response get_status builds, taken from a run record
ResponseField(run, field) ==
    CASE field = "status" -> run.status
      [] field = "progress" -> run.progress
      [] field = "current_stage" -> run.current_stage
      [] field = "message" ->
            IF run.status = FAILED THEN run.error_message ELSE None

\* C8: what a reader obtained from get never changes afterwards, and every
\* field it reads through it is the field of that one snapshot.
C8_ReaderHoldsCopy ==
    rdr.ref # Nothing =>
        /\ Deref = rdr.got
        /\ \A f \in DOMAIN rdr.seen : rdr.seen[f] = ResponseField(rdr.got, f)

InCall(t) == thr[t].pc \in {"status", "progress", "current_stage", "error_message", "return"}

\* the run record a thread inside update_status must find at its position,
\* computed from the record it found when it entered
Expected(t) ==
    LET r0 == thr[t].before
        r1 == SetStatus(r0, ArgStatus(t))
        r2 == SetProgress(r1, ArgProgress(t))
        r3 == SetCurrentStage(r2, ArgCurrentStage(t))
        r4 == SetErrorMessage(r3, ArgErrorMessage(t))
    IN  CASE thr[t].pc = "status" -> r0
          [] thr[t].pc = "progress" -> r1
          [] thr[t].pc = "current_stage" -> r2
          [] thr[t].pc = "error_message" -> r3
          [] thr[t].pc = "return" -> r4

\* C9: mutators of the same run are atomic with respect to each other: a
\* thread inside update_status holds the lock alone, finds at every statement
\* the record it found on entry changed by its own writes only, and leaves the
\* record a serial execution of its call would leave.
C9_MutatorsAtomic ==
    \A t \in Threads :
        InCall(t) =>
            /\ lock = Some(t)
            /\ \A u \in Threads \ {t} : ~InCall(u)
            /\ heap[ArgRunId(t)] = Expected(t)

\* a second update_status on the same run, with another status and progress
\* supplied by both, has run to its last statement after the first returned
C9_Witness ==
    /\ thr[1].pc = "done" /\ thr[1].ret = TRUE
    /\ thr[2].pc = "return"
    /\ ArgRunId(1) = ArgRunId(2)
    /\ ArgStatus(1) # ArgStatus(2)
    /\ ArgProgress(1) # Nothing /\ ArgProgress(2) # Nothing
    /\ heap[ArgRunId(2)].status = ArgStatus(2)

\* thread u has made or is making an update_status call on the run
CallsOn(u, run_id) == thr[u].args # Nothing /\ ArgRunId(u) = run_id

\* the optional fields a call supplies
Supplies(t, field) ==
    CASE field = "progress" -> ArgProgress(t) # Nothing
      [] field = "current_stage" -> ArgCurrentStage(t) # None
      [] field = "error_message" -> ArgErrorMessage(t) # None

\* thread t is the only caller supplying the field on the run of its call
OnlySupplier(t, field) ==
    /\ Supplies(t, field)
    /\ \A u \in Threads \ {t} : ~(CallsOn(u, ArgRunId(t)) /\ Supplies(u, field))

\* C10: when concurrent update_status calls on one run supply disjoint
\* optional fields, every supplied progress, current_stage and error value of
\* a call that returned is in the run: no write is lost.
C10_NoLostWrite ==
    \A t \in Threads :
        (thr[t].pc = "done" /\ thr[t].ret = TRUE) =>
            LET run == heap[ArgRunId(t)] IN
            /\ OnlySupplier(t, "progress") =>
                  run.progress = Max(0, Min(100, ArgProgress(t)[1]))
            /\ OnlySupplier(t, "current_stage") =>
                  run.current_stage = ArgCurrentStage(t)
            /\ OnlySupplier(t, "error_message") =>
                  run.error_message = ArgErrorMessage(t)

\* two calls with disjoint optional fields have both returned and the run
\* carries the progress of one and the stage and error of the other
C10_Witness ==
    /\ thr[1].pc = "done" /\ thr[1].ret = TRUE
    /\ thr[2].pc = "done" /\ thr[2].ret = TRUE
    /\ thr[1].args = <<1, "generating", Some(40), None, None>>
    /\ thr[2].args = <<1, "critiquing", Nothing, "generation", "boom">>
    /\ heap[1].progress = 40
    /\ heap[1].current_stage = "generation"
    /\ heap[1].error_message = "boom"

\* the last step returned from a call of the operation that found its run
Called(op) == last'.op = op /\ nops' = nops + 1 /\ last'.ret = TRUE

\* the run of that call before and after it
Before == heap[last'.run_id]
After == heap'[last'.run_id]

\* C11: update_status clamps a supplied progress into [0, 100] (below 0 is
\* stored as 0, above 100 as 100, inside the range unchanged), and the
\* progress of every run is within [0, 100] in every reachable state.
C11_ProgressClamped ==
    /\ \A run_id \in runs :
          heap[run_id].progress >= 0 /\ heap[run_id].progress <= 100
    /\ (last.op = "update_status" /\ last.ret = TRUE /\ last.args[2] # Nothing) =>
          LET p == last.args[2][1]
          IN  LastRun.progress = (IF p < 0 THEN 0 ELSE IF p > 100 THEN 100 ELSE p)

\* a progress above the range was supplied for a run that is not completed
C11_Witness ==
    /\ last.op = "update_status" /\ last.ret = TRUE
    /\ last.args[2] = Some(130)
    /\ LastRun.progress = 100
    /\ LastRun.status = "critiquing"

\* the input snapshot, stage history, retry_count, result fields and
\* timestamps of creation and completion are the same in both records
SameBesidesStatus(old, new) ==
    /\ new.run_id = old.run_id
    /\ new.prompt = old.prompt
    /\ new.media_type = old.media_type
    /\ new.brand_website_url = old.brand_website_url
    /\ new.stages = old.stages
    /\ new.retry_count = old.retry_count
    /\ new.brand_kit_data = old.brand_kit_data
    /\ new.generated_ads = old.generated_ads
    /\ new.critique_results = old.critique_results
    /\ new.final_ad_path = old.final_ad_path
    /\ new.created_at = old.created_at
    /\ new.completed_at = old.completed_at

C12_Step ==
    Called("update_status") =>
        /\ last'.args[2] = Nothing => After.progress = Before.progress
        /\ last'.args[3] = None => After.current_stage = Before.current_stage
        /\ last'.args[4] = None => After.error_message = Before.error_message
        /\ SameBesidesStatus(Before, After)

\* C12: update_status leaves every field it was not given unchanged: an
\* omitted progress, current_stage or error keeps its value, and the stage
\* history, retry_count, result fields, input snapshot and completed
\* timestamp are never changed by update_status.
C12_UpdateStatusFrame == [][C12_Step]_vars

\* update_status was called with a status alone on a run that had progress,
\* a current stage and an error message, and the run still has them
C12_Witness ==
    /\ last.op = "update_status" /\ last.ret = TRUE
    /\ last.args = <<"critiquing", Nothing, None, None>>
    /\ LastRun.status = "critiquing"
    /\ LastRun.progress = 40
    /\ LastRun.current_stage = "generation"
    /\ LastRun.error_message = "boom"

\* the operations that take the id of an existing run and change it
Mutators ==
    {"update_status", "start_stage", "complete_stage", "fail_stage",
     "update_run_data", "increment_retry", "complete_run", "delete_run"}

C13_Step ==
    /\ (nops' = nops + 1 /\ last'.op = "get_run" /\ last'.run_id \notin runs) =>
          /\ last'.ret = Nothing
          /\ UNCHANGED storeVars
    /\ (nops' = nops + 1 /\ last'.op \in Mutators /\ last'.run_id \notin runs) =>
          /\ last'.ret = FALSE
          /\ UNCHANGED storeVars
    /\ (nops' = nops + 1 /\ last'.op # "create_run") => runs' \subseteq runs

\* C13: for a run id that is not in the store, get returns not_found and
\* every mutating operation returns not_found and leaves the whole store
\* unchanged; no operation other than create adds a run.
C13_NotFound == [][C13_Step]_vars

\* complete was called on a run that had been created and deleted
C13_Witness ==
    /\ last.op = "complete_run"
    /\ last.ret = FALSE
    /\ last.run_id \in issued \ runs
    /\ heap[last.run_id] = NoRun

C14_Step ==
    Called("fail_stage") =>
        LET stage_name == last'.args[1]
            error == last'.args[2]
        IN  /\ After.status = FAILED
            /\ After.error_message = error
            /\ Before.stages[stage_name] # NoStage =>
                  /\ After.stages[stage_name].status = FAILED
                  /\ After.stages[stage_name].error = error
                  /\ After.stages[stage_name].completed_at # None
            /\ \A n \in StageNames \ {stage_name} : After.stages[n] = Before.stages[n]

\* C14: fail_stage on an existing run marks the record of the named stage
\* (a stage that was started) failed with the given error, and in the same
\* step sets the run's status to failed and the run's error message to that
\* same error text; the records of the other stages are left as they were.
C14_FailStage == [][C14_Step]_vars

\* a started stage was failed: stage record and run carry the same error
C14_Witness ==
    /\ last.op = "fail_stage" /\ last.ret = TRUE
    /\ last.args[1] = "generation"
    /\ last.args[2] = "gen failed"
    /\ LastRun.stages["generation"] # NoStage
    /\ LastRun.stages["generation"].status = FAILED
    /\ LastRun.stages["generation"].error = "gen failed"
    /\ LastRun.status = FAILED
    /\ LastRun.error_message = "gen failed"

C15_Step ==
    \A run_id \in runs \cap runs' :
        (heap[run_id].status # FAILED /\ heap'[run_id].status = FAILED) =>
            /\ heap'[run_id].progress = heap[run_id].progress
            /\ heap'[run_id].error_message # None

\* C15: whenever a run becomes failed, its progress keeps the value it had
\* before the failure and its error message is populated, for every store
\* operation that can set status failed, complete with success=false included.
C15_FailureKeepsProgress == [][C15_Step]_vars

C16_Step ==
    Called("complete_run") =>
        /\ After.status = (IF last'.args[1] THEN COMPLETED ELSE FAILED)
        /\ After.progress = 100
        /\ After.completed_at # None

\* C16: complete_run on an existing run sets status to completed when success
\* is true and to failed when it is false, sets progress to 100 and sets the
\* completed timestamp, from any prior state of the run.
C16_CompleteRun == [][C16_Step]_vars

\* a run that fail_stage had failed was then completed with success
C16_Witness ==
    /\ last.op = "complete_run" /\ last.ret = TRUE
    /\ last.args = <<TRUE>>
    /\ LastRun.status = COMPLETED
    /\ LastRun.progress = 100
    /\ LastRun.completed_at # None
    /\ LastRun.error_message = "boom"

\* the runs the engine was started for
EngineRuns == {run_id \in runs : task[run_id].pc # "none"}

C17_Inv ==
    \A run_id \in EngineRuns :
        /\ task[run_id].max_retries = 3
        /\ heap[run_id].retry_count <= task[run_id].max_retries

C17_Step ==
    \A run_id \in EngineRuns :
        heap[run_id].retry_count = task[run_id].max_retries =>
            /\ heap'[run_id].retry_count = heap[run_id].retry_count
            /\ task[run_id].pc = "decision" =>
                  /\ task'[run_id].pc \in {"decision", "finished", "raised"}
                  /\ heap'[run_id].status # heap[run_id].status =>
                        heap'[run_id].status \in Terminal
                  /\ task'[run_id].pc = "finished" =>
                        heap'[run_id].status \in Terminal

\* C17 as amended: retry_count of a run never exceeds max_retries (3 on the
\* API path); once retry_count equals max_retries it is not incremented again
\* and the Decision of the run can only move it to a terminal status: there
\* is no further loop-back (the attempt that the last loop-back started still
\* passes through its generation or refinement and its critique).
C17_RetryCeiling == []C17_Inv /\ [][C17_Step]_vars

C17_StatusStep ==
    \A run_id \in EngineRuns :
        heap[run_id].retry_count = task[run_id].max_retries =>
            /\ heap'[run_id].retry_count = heap[run_id].retry_count
            /\ heap'[run_id].status # heap[run_id].status =>
                  heap'[run_id].status \in Terminal

\* C17: retry_count of a run never exceeds max_retries (3 on the API path) in
\* any reachable state; once retry_count equals max_retries the run can only
\* move to a terminal status and retry_count is not incremented again.
C17_OnlyTerminalAtCeiling == []C17_Inv /\ [][C17_StatusStep]_vars

\* the critique recommended enhance at the ceiling and the run was ended
C17_Witness ==
    \E run_id \in EngineRuns :
        /\ task[run_id].pc = "finished"
        /\ heap[run_id].retry_count = 3
        /\ task[run_id].refinement_strategy = "enhance"
        /\ task[run_id].decision = END
        /\ heap[run_id].status = FAILED

\* C18: a run whose retry_count has reached max_retries while the critique
\* still recommends regenerate is ended by the engine with status failed and
\* the error message "max retries exceeded".
C18_MaxRetriesExceeded ==
    \A run_id \in EngineRuns :
        (/\ task[run_id].pc = "finished"
         /\ task[run_id].failure = None
         /\ task[run_id].retry_count = task[run_id].max_retries
         /\ task[run_id].refinement_strategy = "regenerate") =>
            /\ heap[run_id].status = FAILED
            /\ heap[run_id].error_message = "max retries exceeded"
            /\ heap[run_id].retry_count = task[run_id].max_retries

\* three regenerations were made, the fourth critique recommended another
C18_Witness ==
    \E run_id \in EngineRuns :
        /\ task[run_id].pc = "finished"
        /\ task[run_id].failure = None
        /\ task[run_id].retry_count = 3
        /\ task[run_id].refinement_strategy = "regenerate"
        /\ heap[run_id].stages["generation"].status = COMPLETED
        /\ heap[run_id].error_message = "max retries exceeded"

\* the runs whose generation adapter returned a failure
GenerationFailed == {run_id \in EngineRuns : task[run_id].failed_stage = "generation"}

C19_Inv ==
    \A run_id \in GenerationFailed :
        /\ task[run_id].pc = "finished"
        /\ heap[run_id].status = FAILED
        /\ heap[run_id].stages["generation"] # NoStage
        /\ heap[run_id].stages["generation"].status = FAILED
        /\ heap[run_id].stages["generation"].error = task[run_id].failure
        /\ task[run_id].failure \in Errors

C19_Step ==
    \A run_id \in GenerationFailed :
        /\ task'[run_id].pc # "critique"
        /\ heap'[run_id].status # "critiquing"
        /\ heap'[run_id].stages["critique"] = heap[run_id].stages["critique"]

\* C19: a run whose generation adapter fails never enters the critique stage
\* afterwards, ends with status failed, and the generation stage record
\* carries exactly the error text the adapter reported.
C19_GenerationFailure == []C19_Inv /\ [][C19_Step]_vars

\* the generation of a retry failed, after the first attempt had been
\* critiqued
C19_Witness ==
    \E run_id \in GenerationFailed :
        /\ task[run_id].failure = "gen failed"
        /\ heap[run_id].retry_count = 1
        /\ heap[run_id].stages["critique"] # NoStage
        /\ heap[run_id].stages["critique"].status = COMPLETED
        /\ heap[run_id].stages["generation"].error = "gen failed"

\* C20: every run that reaches Decision == approve ends completed with its
\* critique result populated and its final artifact reference non-null.
C20_ApprovedRunHasResult ==
    \A run_id \in EngineRuns :
        task[run_id].decision = "approve" =>
            /\ task[run_id].pc = "finished"
            /\ heap[run_id].status = COMPLETED
            /\ heap[run_id].critique_results # None
            /\ heap[run_id].final_ad_path # None

\* a run was approved after two loop-backs
C20_Witness ==
    \E run_id \in EngineRuns :
        /\ task[run_id].decision = "approve"
        /\ heap[run_id].retry_count = 2
        /\ heap[run_id].brand_kit_data # None
        /\ heap[run_id].stages["refinement"] # NoStage
        /\ heap[run_id].status = COMPLETED

\* the last call was POST /generate with these form fields
Posted == last.op = "generate_ad"
PostedPrompt == last.args[1]
PostedMediaType == last.args[2]
PostedLogo == last.args[4]
PostedProduct == last.args[5]

\* C21 as amended: POST /generate accepts a request exactly when the prompt
\* has at least 10 and at most 1000 characters and at least 10 after blanks
\* are stripped from both ends, the media kind is image or video, and each
\* uploaded file passed its checks and was saved; every other request is
\* rejected with status 400 or 422.
C21_AcceptsExactlyValid ==
    Posted =>
        /\ last.ret \in {200, 400, 422}
        /\ last.ret = 200 <=>
              /\ Len(PostedPrompt) >= 10
              /\ Len(PostedPrompt) <= 1000
              /\ \E i, j \in 1..Len(PostedPrompt) :
                    /\ j - i + 1 >= 10
                    /\ PostedPrompt[i] # " "
                    /\ PostedPrompt[j] # " "
              /\ PostedMediaType \in {"image", "video"}
              /\ PostedLogo # "rejected"
              /\ PostedProduct # "rejected"

\* a prompt of 12 characters, 8 of them between blanks, was rejected
C21_Witness ==
    /\ Posted
    /\ PostedPrompt = Padded(2, 8, 2)
    /\ PostedMediaType = "image"
    /\ PostedLogo = None /\ PostedProduct = "saved"
    /\ last.ret = 400
    /\ runs = {}

\* C21: POST /generate accepts a request exactly when the prompt has at least
\* 10 characters and the media kind is image or video; every other request
\* is rejected.
C21_AcceptsByLengthAndKind ==
    Posted =>
        (last.ret = 200 <=>
            (Len(PostedPrompt) >= 10 /\ PostedMediaType \in {"image", "video"}))

\* the last step was a call of the handler, answered
Answered(op) == last'.op = op /\ nops' = nops + 1

C22_Inv ==
    /\ \A run_id \in RunIds :
          task[run_id].pc # "none" =>
              /\ run_id \in runs
              /\ heap[run_id].status \in RunStatus
              /\ StatusResponse(run_id).code = 200
    /\ (Posted /\ last.ret = 200) => task[last.run_id].pc # "none"
    /\ (last.op = "get_status" /\ last.run_id \in issued) =>
          /\ last.ret.code = 200
          /\ last.ret.status \in RunStatus

C22_Step ==
    \A run_id \in RunIds :
        /\ (task[run_id].pc = "none" /\ task'[run_id].pc # "none") =>
              /\ Answered("generate_ad")
              /\ last'.ret = 200 /\ last'.run_id = run_id
              /\ task'[run_id].pc = "queued"
              /\ run_id \in runs'
              /\ heap'[run_id].status = PENDING
        /\ (task[run_id].pc = "queued" /\ task'[run_id].pc # "queued") =>
              run_id \in runs

\* C22: once POST /generate has returned a run id, get_status for that id
\* never answers not_found: the run is in the store when the response is
\* returned and before the background pipeline starts, and its status is
\* pending or further along.
C22_KnownOnceReturned == []C22_Inv /\ [][C22_Step]_vars

\* get_status was called right after the response, before the pipeline
\* started, and answered pending
C22_Witness ==
    /\ last.op = "get_status"
    /\ task[last.run_id].pc = "queued"
    /\ last.ret.code = 200
    /\ last.ret.status = PENDING
    /\ last.ret.progress = 0

C23_Step ==
    \A op \in {"get_status", "get_result"} :
        (Answered(op) /\ last'.run_id \notin runs) =>
            /\ last'.ret = [code |-> 404]
            /\ UNCHANGED storeVars

\* C23: get_status and get_result called with a run id that is not in the
\* store answer not_found (404), never a status record and never an internal
\* error.
C23_UnknownIdNotFound == [][C23_Step]_vars

\* get_result was asked for an id never issued while another run was stored
C23_Witness ==
    /\ last.op = "get_result"
    /\ last.run_id \notin issued
    /\ last.ret.code = 404
    /\ runs # {}

C24_Step ==
    (Answered("get_result") /\ last'.run_id \in runs) =>
        LET run == heap[last'.run_id]
        IN  /\ last'.ret.code = 400 <=> run.status \notin Terminal
            /\ run.status \in Terminal =>
                  /\ last'.ret.code = 200
                  /\ last'.ret.status = run.status
                  /\ last'.ret.success = (run.status = COMPLETED)
                  /\ last'.ret.retry_count = run.retry_count
                  /\ last'.ret.completed_at # None

\* C24: get_result on a known run answers not_yet_completed only while the
\* run has not reached a terminal status; for a run in a terminal status it
\* returns a result record with status, success, retry_count and
\* completed_at, with success false for a failed run.
C24_ResultForTerminal == [][C24_Step]_vars

C25_Step ==
    /\ Answered("delete_run") =>
          LET run_id == last'.run_id
          IN  /\ last'.ret = (run_id \in runs)
              /\ runs' = runs \ {run_id}
              /\ \A other \in runs \ {run_id} : heap'[other] = heap[other]
              /\ \A st \in RunStatus \cup {None} :
                    ListRuns(st)' = ListRuns(st) \ {run_id}
    /\ Answered("get_run") =>
          last'.ret = IF last'.run_id \in runs THEN Some(last'.run_id) ELSE Nothing
    /\ Answered("list_runs") => last'.ret = ListRuns(last'.args[1])

\* C25: delete returns ok exactly when the run was in the store and
\* not_found otherwise; after a successful delete, get on that id returns
\* not_found and list no longer contains the run, while every other run is
\* unchanged.
C25_Delete == [][C25_Step]_vars

\* a run was deleted while another one stayed in the store
C25_Witness ==
    /\ last.op = "delete_run"
    /\ last.ret = TRUE
    /\ last.run_id \in issued \ runs
    /\ runs # {}
    /\ last.run_id \notin ListRuns(None)

InRetry(t) ==
    thr[t].pc \in {"retry_load", "retry_store", "retry_updated_at", "retry_return"}

\* the increment_retry calls of threads 1..n that returned True
RECURSIVE RetryCalls(_)
RetryCalls(n) == IF n = 0 THEN 0 ELSE thr[n].calls + RetryCalls(n - 1)

\* C26: after k increment_retry calls on an existing run, in any
\* interleaving of concurrent callers, retry_count equals its initial value
\* plus k; each call adds exactly one and changes no other field except the
\* last-updated timestamp.
C26_RetryCounts ==
    /\ \A t \in Threads :
          At(t, "retry_return") =>
              /\ heap[ArgRunId(t)] = IncrementRetry(thr[t].before)
              /\ heap[ArgRunId(t)] =
                    [thr[t].before EXCEPT !.retry_count = @ + 1, !.updated_at = Now]
    /\ (\A t \in Threads : ~InRetry(t)) =>
          heap[1] = [NewRun(1, "a nike shoe ad", "image", None)
                        EXCEPT !.retry_count = @ + RetryCalls(MaxThreads)]

\* two threads have each returned from two increment_retry calls on the run
C26_Witness ==
    /\ \A t \in Threads : thr[t].pc = "done" /\ thr[t].ret = TRUE /\ thr[t].calls = 2
    /\ heap[1].retry_count = 4

\* the stage name and the metadata dict of the last stage call
StageArg == last'.args[1]
MetaArg(i) == IF last'.args[i] = Nothing THEN <<>> ELSE last'.args[i][1]

C27_Step ==
    Called("start_stage") =>
        /\ After.stages[StageArg] =
              [stage_name |-> StageArg,
               status |-> PENDING,
               started_at |-> Now,
               completed_at |-> None,
               metadata |-> MetaArg(2),
               error |-> None]
        /\ After.current_stage = StageArg
        /\ \A n \in StageNames \ {StageArg} : After.stages[n] = Before.stages[n]

\* C27: the stage history holds at most one record per stage name and it is
\* that of the latest attempt: start_stage for a name already in the history
\* replaces the whole record (status back to pending, start time set,
\* completion time null, error cleared, metadata replaced by the supplied
\* metadata or empty) and sets current_stage to that name.
C27_StartStageReplaces == [][C27_Step]_vars

\* the third call started a stage again that was in the history, with other
\* metadata, in a run an earlier fail_stage had marked failed
C27_Witness ==
    /\ last.op = "start_stage" /\ last.ret = TRUE /\ nops = 3
    /\ last.args = <<"generation", Some("m" :> "v1"), TRUE>>
    /\ heap[1].status = FAILED
    /\ heap[1].error_message = "boom"
    /\ heap[1].current_stage = "generation"
    /\ heap[1].stages["generation"] # NoStage
    /\ heap[1].stages["generation"].status = PENDING
    /\ heap[1].stages["generation"].completed_at = None
    /\ heap[1].stages["generation"].error = None
    /\ DOMAIN heap[1].stages["generation"].metadata = {"m"}
    /\ heap[1].stages["critique"] = NoStage

C28_Step ==
    (Called("complete_stage") /\ Before.stages[StageArg] # NoStage) =>
        LET old == Before.stages[StageArg]
            new == After.stages[StageArg]
        IN  /\ new.status = COMPLETED
            /\ new.completed_at = Now
            /\ DOMAIN new.metadata = (DOMAIN old.metadata) \cup (DOMAIN MetaArg(2))
            /\ \A k \in DOMAIN MetaArg(2) : new.metadata[k] = MetaArg(2)[k]
            /\ \A k \in (DOMAIN old.metadata) \ (DOMAIN MetaArg(2)) :
                  new.metadata[k] = old.metadata[k]
            /\ new.stage_name = old.stage_name
            /\ new.started_at = old.started_at
            /\ new.error = old.error

\* C28: complete_stage on a started stage sets that stage record's status
\* to completed and its completion time, and merges the supplied metadata
\* into the existing metadata: keys already present and not supplied keep
\* their values, supplied keys take the new values.
C28_CompleteStageMerges == [][C28_Step]_vars

\* a stage started with one key was completed with another key supplied and
\* carries both
C28_Witness ==
    /\ last.op = "complete_stage" /\ last.ret = TRUE
    /\ last.args = <<"generation", Some("m" :> "v1")>>
    /\ heap[1].stages["generation"] # NoStage
    /\ heap[1].stages["generation"].status = COMPLETED
    /\ heap[1].stages["generation"].completed_at = Now
    /\ DOMAIN heap[1].stages["generation"].metadata = {"k", "m"}
    /\ heap[1].stages["generation"].metadata["k"] = "v2"
    /\ heap[1].stages["generation"].metadata["m"] = "v1"

\* C29: every stage record has its completion time null exactly while its
\* status is pending, and carries an error text only if its status is
\* failed, after any sequence of start_stage, complete_stage and fail_stage
\* on the same stage name.
C29_StageRecordConsistent ==
    \A run_id \in runs : \A n \in StageNames :
        LET stage == heap[run_id].stages[n]
        IN  stage # NoStage =>
                /\ stage.completed_at = None <=> stage.status = PENDING
                /\ stage.error # None => stage.status = FAILED

\* C30: a run whose status is completed has progress equal to 100.
C30_CompletedAtFullProgress ==
    \A run_id \in runs :
        heap[run_id].status = COMPLETED => heap[run_id].progress = 100

\* the identity and the input snapshot of a run record
InputSnapshot(run) ==
    <<run.run_id, run.prompt, run.media_type, run.brand_website_url>>

C31_Step ==
    \A run_id \in runs \cap runs' :
        /\ InputSnapshot(heap'[run_id]) = InputSnapshot(heap[run_id])
        /\ heap'[run_id].run_id = run_id

\* C31: the run identifier and the input snapshot (prompt, media kind,
\* brand-source reference) of a run are immutable: no Run Store operation
\* other than delete changes them after create.
C31_InputImmutable == [][C31_Step]_vars

\* two mutators have run on a run that still has what create_run was given
C31_Witness ==
    /\ last.op = "update_run_data" /\ last.ret = TRUE /\ nops = 3
    /\ heap[last.run_id].brand_kit_data = "data"
    /\ heap[last.run_id].status # PENDING
    /\ InputSnapshot(heap[last.run_id]) =
          <<last.run_id, "a coffee ad", "video", "https://brand.example">>

\* the step is a loop-back of the run: Decision -> Generation or Refinement
LoopBack(run_id) ==
    /\ task[run_id].pc = "decision"
    /\ task'[run_id].pc \in {"generation", "refinement"}

C32_Inv ==
    \A run_id \in runs : heap[run_id].retry_count = task[run_id].retry_count

C32_Step ==
    \A run_id \in RunIds :
        /\ (run_id \in runs' \ runs) => heap'[run_id].retry_count = 0
        /\ (run_id \in runs \cap runs') =>
              heap'[run_id].retry_count =
                  heap[run_id].retry_count + (IF LoopBack(run_id) THEN 1 ELSE 0)
        /\ LoopBack(run_id) =>
              /\ task'[run_id].decision \in {"regenerate", "enhance"}
              /\ task'[run_id].decision = should_continue(task[run_id])

\* C32: retry_count starts at 0 and changes only by increment_retry, which
\* the engine calls only when the Decision Policy selected regenerate or
\* enhance: in every reachable state retry_count equals the number of
\* loop-back transitions the run has taken.
C32_RetryCountsLoopBacks == []C32_Inv /\ [][C32_Step]_vars

\* a run has looped back twice, the second time into Refinement
C32_Witness ==
    \E run_id \in runs :
        /\ heap[run_id].retry_count = 2
        /\ task[run_id].pc = "refinement"
        /\ task[run_id].decision = "enhance"
        /\ heap[run_id].stages["generation"] # NoStage

\* position of an engine state in the order of the pipeline
Rank(pc) ==
    CASE pc = "none" -> 0
      [] pc = "queued" -> 1
      [] pc = "brand_kit" -> 2
      [] pc \in {"generation", "refinement"} -> 3
      [] pc = "critique" -> 4
      [] pc = "decision" -> 5
      [] pc \in {"finished", "raised"} -> 6

C33_Inv ==
    \A run_id \in RunIds : task[run_id].retry_count <= task[run_id].max_retries

C33_Step ==
    \A run_id \in RunIds :
        task'[run_id].pc # task[run_id].pc =>
            \/ Rank(task'[run_id].pc) > Rank(task[run_id].pc)
            \/ /\ LoopBack(run_id)
               /\ task[run_id].retry_count < task[run_id].max_retries
               /\ task'[run_id].retry_count = task[run_id].retry_count + 1

\* the run is stored in a terminal status, or a fault left the pipeline
Settled(run_id) ==
    \/ run_id \in runs /\ heap[run_id].status \in Terminal /\ task[run_id].pc = "finished"
    \/ task[run_id].fault # None

\* C33: every started run whose adapter calls all return reaches a terminal
\* status (completed or failed) after finitely many steps: the
\* critique-decision loop takes at most max_retries loop-backs and no other
\* transition leads back to an earlier stage.
C33_Terminates ==
    /\ []C33_Inv
    /\ [][C33_Step]_vars
    /\ \A run_id \in RunIds : (task[run_id].pc = "queued") ~> Settled(run_id)

\* a run that looped back max_retries times was ended by the Decision Policy
C33_Witness ==
    \E run_id \in runs :
        /\ task[run_id].pc = "finished"
        /\ task[run_id].fault = None
        /\ task[run_id].retry_count = task[run_id].max_retries
        /\ task[run_id].max_retries = ApiMaxRetries
        /\ heap[run_id].status = FAILED

\* the stages of a run that were started and have neither completed nor failed
Executing(run_id) ==
    {n \in StageNames : /\ heap[run_id].stages[n] # NoStage
                        /\ heap[run_id].stages[n].status = PENDING}

C34_Inv ==
    \A run_id \in runs :
        /\ Cardinality(Executing(run_id)) <= 1
        /\ task[run_id].pc \in EngineStages => Executing(run_id) = {task[run_id].pc}
        /\ task[run_id].pc \in {"queued", "decision", "finished"} =>
              Executing(run_id) = {}

C34_Step ==
    \A run_id \in RunIds : \A other \in RunIds \ {run_id} :
        task'[run_id] # task[run_id] =>
            /\ task'[other] = task[other]
            /\ heap'[other] = heap[other]

\* C34: within a single run the stages execute strictly one after another:
\* at no point are two stages of the same run executing at the same time,
\* while stages of different runs may interleave arbitrarily.
C34_StagesSequential == []C34_Inv /\ [][C34_Step]_vars

\* the run submitted second is in Critique after a loop-back while the run
\* submitted first is still extracting its brand kit
C34_Witness ==
    /\ task[1].pc = "brand_kit" /\ Executing(1) = {"brand_kit"}
    /\ task[2].pc = "critique" /\ Executing(2) = {"critique"}
    /\ task[2].retry_count = 1
    /\ heap[2].stages["generation"].status = COMPLETED

C35_Step ==
    \A run_id \in runs \cap runs' :
        heap[run_id].status \in Terminal =>
            heap'[run_id].status = heap[run_id].status

\* C35: once a run's status is completed or failed, no later Run Store
\* operation issued for that run changes its status to a non-terminal value
\* or switches it between completed and failed: terminal status is absorbing.
C35_TerminalAbsorbing == [][C35_Step]_vars

\* the runs that were created and have been deleted
Deleted == issued \ runs

C36_Inv ==
    \A run_id \in Deleted :
        /\ heap[run_id] = NoRun
        /\ \A st \in RunStatus \cup {None} : run_id \notin ListRuns(st)

C36_Step ==
    \A run_id \in Deleted :
        /\ run_id \notin runs'
        /\ heap'[run_id] = NoRun
        /\ \A op \in Mutators :
              (Answered(op) /\ last'.run_id = run_id) => last'.ret = FALSE
        /\ (Answered("get_run") /\ last'.run_id = run_id) => last'.ret = Nothing
        /\ Answered("list_runs") => run_id \notin last'.ret

\* C36: a run deleted while its pipeline is still executing is never
\* resurrected: every later mutation for that id returns not_found, the id
\* stays absent from get and list, and no partial record for it reappears.
C36_DeletedStaysDeleted == []C36_Inv /\ [][C36_Step]_vars

\* a stage of a deleted run was reported as failed and the call found no run
C36_Witness ==
    /\ last.op = "fail_stage"
    /\ last.ret = FALSE
    /\ last.run_id \in Deleted
    /\ heap[last.run_id] = NoRun

C37_Step ==
    \A op \in Mutators \cup {"create_run"} :
        Answered(op) =>
            \A other \in runs \ {last'.run_id} :
                /\ other \in runs'
                /\ heap'[other] = heap[other]

\* C37: a mutating Run Store operation on one run leaves the record of
\* every other run unchanged, under every interleaving of operations on
\* different runs.
C37_OtherRunsUnchanged == [][C37_Step]_vars

\* a run was driven to failed while the other run of the store is as
\* create_run left it
C37_Witness ==
    /\ runs = {1, 2}
    /\ last.op = "fail_stage" /\ last.ret = TRUE
    /\ heap[last.run_id].status = FAILED
    /\ \E other \in runs \ {last.run_id} :
          /\ heap[other].status = PENDING
          /\ heap[other].error_message = None
          /\ heap[other].prompt # heap[last.run_id].prompt

C38_Step ==
    Answered("generate_ad") =>
        /\ last'.ret # 200 => UNCHANGED <<runs, heap, issued, task>>
        /\ last'.ret = 200 =>
              /\ runs' = runs \cup {last'.run_id}
              /\ last'.run_id \notin runs
              /\ task'[last'.run_id].pc = "queued"
              /\ last'.args[4] # "rejected"
              /\ last'.args[5] # "rejected"

\* C38: a create_run request that is rejected, by validation or by an
\* upload failure of the logo or product file, adds no run to the store and
\* starts no background pipeline: the run is created only after all checks
\* and file saves succeeded.
C38_RejectedCreatesNothing == [][C38_Step]_vars

\* a request with a valid prompt and media kind and a saved logo was refused
\* for its product file, and the store is empty
C38_Witness ==
    /\ Posted /\ last.ret = 400
    /\ FormValid(PostedPrompt) /\ Len(Strip(PostedPrompt)) >= MinLength
    /\ PostedMediaType = "video"
    /\ PostedLogo = "saved" /\ PostedProduct = "rejected"
    /\ runs = {} /\ issued = {}
    /\ Submitted = {}

\* the last step was a call of the stage method on a run of the store, with
\* a stage name that is not in the run's stage history
OnUnstarted(op) ==
    /\ Answered(op)
    /\ last'.run_id \in runs
    /\ Before.stages[StageArg] = NoStage

C39_Step ==
    /\ OnUnstarted("complete_stage") =>
          /\ last'.ret = TRUE
          /\ After = [Before EXCEPT !.updated_at = Now]
    /\ OnUnstarted("fail_stage") =>
          /\ last'.ret = TRUE
          /\ After = [Before EXCEPT !.status = FAILED,
                                    !.error_message = last'.args[2],
                                    !.updated_at = Now]
          /\ After.stages[StageArg] = NoStage

\* C39: complete_stage and fail_stage called with a stage name that was
\* never started on an existing run create no stage record and return ok;
\* fail_stage still sets the run to failed with the given error in that case.
C39_UnstartedStage == [][C39_Step]_vars

\* the first call on the run failed a stage nobody had started
C39_Witness ==
    /\ last.op = "fail_stage" /\ last.ret = TRUE /\ nops = 1
    /\ last.args[1] = "critique" /\ last.args[2] = "boom"
    /\ \A n \in StageNames : heap[last.run_id].stages[n] = NoStage
    /\ heap[last.run_id].status = FAILED
    /\ heap[last.run_id].error_message = "boom"

====
